---- MODULE Spec2Model ----
(***************************************************************************)
(* HTTP Signatures: the hyper client adapter (src/use_hyper_client.rs).    *)
(*                                                                         *)
(* Strings are sequences of bytes, so that lower-casing, byte ordering,    *)
(* joining and parsing are computed and not assumed.  A hyper::Request is  *)
(* a record of method, URI path, optional query, body and a header map     *)
(* whose names compare case-insensitively, as hyper's Headers does.        *)
(***************************************************************************)
EXTENDS Integers, Sequences, FiniteSets, Bags, TLC

VARIABLES req, wire, last, calls

vars == <<req, wire, last, calls>>

-----------------------------------------------------------------------------
(* Bounds of the model.                                                    *)

\* raw header lines a caller puts on the request, over all names
MaxRaw == 2
\* successful attach calls made on one request
MaxCalls == 2

-----------------------------------------------------------------------------
(* Byte strings.                                                           *)

\* "(request-target)"
REQUEST_TARGET == <<40, 114, 101, 113, 117, 101, 115, 116, 45, 116, 97, 114, 103, 101, 116, 41>>
\* "Authorization", the name of hyper's typed Authorization header
AuthorizationName == <<65, 117, 116, 104, 111, 114, 105, 122, 97, 116, 105, 111, 110>>
\* "Signature"
SignatureName == <<83, 105, 103, 110, 97, 116, 117, 114, 101>>
\* "Signature ", the scheme token and space of the Authorization form
SchemePrefix == <<83, 105, 103, 110, 97, 116, 117, 114, 101, 32>>
\* keyId="
KeyIdParam == <<107, 101, 121, 73, 100, 61, 34>>
\* ",algorithm="
AlgorithmParam == <<34, 44, 97, 108, 103, 111, 114, 105, 116, 104, 109, 61, 34>>
\* ",headers="
HeadersParam == <<34, 44, 104, 101, 97, 100, 101, 114, 115, 61, 34>>
\* ",signature="
SignatureParam == <<34, 44, 115, 105, 103, 110, 97, 116, 117, 114, 101, 61, 34>>
Quote == <<34>>
Space == <<32>>
Newline == <<10>>
ColonSpace == <<58, 32>>
CommaSpace == <<44, 32>>
QuestionMark == <<63>>

\* "POST" and "GET", what Method::as_ref gives for Method::Post and Method::Get
MethodPost == <<80, 79, 83, 84>>
MethodGet == <<71, 69, 84>>
\* "/foo"
PathFoo == <<47, 102, 111, 111>>
\* "x=1"
QueryX == <<120, 61, 49>>
\* "rsa-key-1"
KEY_ID == <<114, 115, 97, 45, 107, 101, 121, 45, 49>>
\* "(request-target): post /foo"
PostFooLine == <<40, 114, 101, 113, 117, 101, 115, 116, 45, 116, 97, 114, 103, 101, 116, 41, 58, 32, 112, 111, 115, 116, 32, 47, 102, 111, 111>>

\* str::to_lowercase on ASCII text
ToLowercase(s) == [i \in DOMAIN s |-> IF s[i] >= 65 /\ s[i] <= 90 THEN s[i] + 32 ELSE s[i]]

MinOf(S) == CHOOSE x \in S : \A y \in S : x <= y

\* Ord for String: lexicographic comparison of the bytes
StrLess(a, b) ==
    LET n == IF Len(a) < Len(b) THEN Len(a) ELSE Len(b)
        diff == {i \in 1..n : a[i] # b[i]}
    IN  IF diff = {} THEN Len(a) < Len(b)
        ELSE a[MinOf(diff)] < b[MinOf(diff)]

RECURSIVE Join(_, _)
\* [String]::join(sep)
Join(parts, sep) ==
    IF parts = <<>> THEN <<>>
    ELSE IF Len(parts) = 1 THEN parts[1]
    ELSE parts[1] \o sep \o Join(Tail(parts), sep)

\* the positions at which sub occurs in s
Occurrences(sub, s) ==
    {i \in 1..(Len(s) - Len(sub) + 1) : \A k \in DOMAIN sub : s[i + k - 1] = sub[k]}

\* first position at which sub occurs in s, 0 when it does not occur
IndexOf(sub, s) ==
    LET hits == Occurrences(sub, s)
    IN  IF hits = {} THEN 0 ELSE MinOf(hits)

RECURSIVE SplitAt(_, _, _, _)
\* the pieces of s from position from on, cut at the occurrences hits of a
\* separator of length n
SplitAt(s, hits, n, from) ==
    LET rest == {i \in hits : i >= from}
    IN  IF rest = {} THEN <<SubSeq(s, from, Len(s))>>
        ELSE <<SubSeq(s, from, MinOf(rest) - 1)>> \o SplitAt(s, rest, n, MinOf(rest) + n)

\* str::split(sep) for a non-empty separator
Split(s, sep) == SplitAt(s, Occurrences(sep, s), Len(sep), 1)

\* std::str::from_utf8 succeeds; over ASCII and the byte 0xFF, exactly the ASCII strings
IsUtf8(v) == \A i \in DOMAIN v : v[i] < 128

-----------------------------------------------------------------------------
(* hyper::header::Headers: an insertion-ordered map whose names compare    *)
(* case-insensitively (UniCase); an entry keeps the name as first given    *)
(* and the raw lines added under it.                                       *)

HeaderNameEq(a, b) == ToLowercase(a) = ToLowercase(b)

FindHeader(headers, name) ==
    LET hits == {i \in DOMAIN headers : HeaderNameEq(headers[i].name, name)}
    IN  IF hits = {} THEN 0 ELSE MinOf(hits)

\* Headers::set_raw / Headers::set: replace the entry of that name
set_raw(headers, name, value) ==
    LET i == FindHeader(headers, name)
        e == [name |-> name, raw |-> <<value>>]
    IN  IF i = 0 THEN Append(headers, e) ELSE [headers EXCEPT ![i] = e]

\* Headers::append_raw: add a line to the entry of that name
append_raw(headers, name, value) ==
    LET i == FindHeader(headers, name)
    IN  IF i = 0 THEN Append(headers, [name |-> name, raw |-> <<value>>])
        ELSE [headers EXCEPT ![i].raw = Append(@, value)]

\* HeaderView::value_string fails (Display returns an error, to_string panics)
ValuePanics(item) == \E i \in DOMAIN item.raw : ~IsUtf8(item.raw[i])

\* a value_string that gives the first raw line alone
value_string_first(item) == item.raw[1]

\* HeaderView::value_string: the raw lines joined with ", "
value_string(item) == Join(item.raw, CommaSpace)

-----------------------------------------------------------------------------
(* The adapter: impl AsHttpSignature for hyper::Request.                    *)

\* Option<&str> is a sequence of zero or one string
None == <<>>
Some(x) == <<x>>

\* the value stored under REQUEST_TARGET
RequestTarget(r) ==
    IF r.query # None
    THEN ToLowercase(r.method) \o Space \o r.path \o QuestionMark \o r.query[1]
    ELSE ToLowercase(r.method) \o Space \o r.path

\* BTreeMap<String, Vec<String>> is a function from its keys;
\* acc.entry(k).or_insert_with(Vec::new).push(v)
EntryPush(acc, k, v) ==
    IF k \in DOMAIN acc THEN [acc EXCEPT ![k] = Append(@, v)]
    ELSE acc @@ (k :> <<v>>)

RECURSIVE FoldHeadersSkipLast(_, _)
\* a fold that stops one header short
FoldHeadersSkipLast(acc, views) ==
    IF Len(views) <= 1 THEN acc
    ELSE FoldHeadersSkipLast(EntryPush(acc, views[1].name, value_string(views[1])), Tail(views))

RECURSIVE FoldHeaders(_, _)
\* self.headers().iter().fold(headers, |acc, header_view| ...)
FoldHeaders(acc, views) ==
    IF views = <<>> THEN acc
    ELSE FoldHeaders(EntryPush(acc, views[1].name, value_string(views[1])), Tail(views))

\* the keys a caller may hold: a readable private key, and one that cannot be read
Keys == {"private.der", "unreadable"}
\* SignatureAlgorithm::RSA(ShaSize::TwoFiftySix)
ALGORITHM == "RSA_SHA256"

\* HttpSignature::new reads the key; a key that cannot be read is an error
HttpSignature_new(key_id, key, algorithm, headers) ==
    IF key = "unreadable"
    THEN [status |-> "err", key_id |-> key_id, algorithm |-> algorithm, headers |-> <<>>]
    ELSE [status |-> "ok", key_id |-> key_id, algorithm |-> algorithm, headers |-> headers]

Panicked(key_id, algorithm) ==
    [status |-> "panic", key_id |-> key_id, algorithm |-> algorithm, headers |-> <<>>]

\* an adapter that does not insert the pseudo-header
as_http_signature_no_target(r, key_id, key, algorithm) ==
    IF \E i \in DOMAIN r.headers : ValuePanics(r.headers[i])
    THEN Panicked(key_id, algorithm)
    ELSE HttpSignature_new(key_id, key, algorithm, FoldHeaders(<<>>, r.headers))

\* as_http_signature: the pseudo-header, then every header view folded into the
\* map under the name the view reports; a value that is not UTF-8 panics in
\* value_string, before the map is handed on
as_http_signature(r, key_id, key, algorithm) ==
    IF \E i \in DOMAIN r.headers : ValuePanics(r.headers[i])
    THEN Panicked(key_id, algorithm)
    ELSE HttpSignature_new(key_id, key, algorithm,
                           FoldHeaders(REQUEST_TARGET :> <<RequestTarget(r)>>, r.headers))

-----------------------------------------------------------------------------
(* What the adapter hands its map to: the signing string, the signature    *)
(* and the encoded header value.                                           *)

RECURSIVE SortedKeys(_)
\* BTreeMap::iter visits the keys in ascending order
SortedKeys(S) ==
    IF S = {} THEN <<>>
    ELSE LET k == CHOOSE x \in S : \A y \in S \ {x} : StrLess(x, y)
         IN  <<k>> \o SortedKeys(S \ {k})

\* TryFrom<HttpSignature> for SigningString: one line per key of the map, in the
\* map's order, the name lower-cased and the values joined with ", "
SigningString(sig) ==
    LET keys == SortedKeys(DOMAIN sig.headers)
    IN  [key_id |-> sig.key_id,
         algorithm |-> sig.algorithm,
         headers |-> [i \in DOMAIN keys |-> ToLowercase(keys[i])],
         signing_string |->
             Join([i \in DOMAIN keys |->
                      ToLowercase(keys[i]) \o ColonSpace \o Join(sig.headers[keys[i]], CommaSpace)],
                  Newline)]

AlgorithmName(algorithm) ==
    IF algorithm = "RSA_SHA256"
    THEN <<114, 115, 97, 45, 115, 104, 97, 50, 53, 54>>
    ELSE <<104, 109, 97, 99, 45, 115, 104, 97, 50, 53, 54>>

\* sign(bytes, key, algorithm) -> bytes: a two-byte digest of the whole text, the
\* sum of i * bytes[i] modulo 2^16 (the bag [i |-> i * bytes[i]] has that many
\* elements), salted by the algorithm
Sign(bytes, algorithm) ==
    LET n == (BagCardinality([i \in DOMAIN bytes |-> i * bytes[i]])
              + (IF algorithm = "RSA_SHA256" THEN 17 ELSE 4099)) % 65536
    IN  <<n \div 256, n % 256>>

Base64Char(n) ==
    IF n < 26 THEN 65 + n
    ELSE IF n < 52 THEN 97 + (n - 26)
    ELSE IF n < 62 THEN 48 + (n - 52)
    ELSE IF n = 62 THEN 43 ELSE 47

RECURSIVE Base64(_)
\* standard base64 with padding
Base64(b) ==
    IF Len(b) = 0 THEN <<>>
    ELSE IF Len(b) = 1 THEN
        <<Base64Char(b[1] \div 4), Base64Char((b[1] % 4) * 16), 61, 61>>
    ELSE IF Len(b) = 2 THEN
        <<Base64Char(b[1] \div 4), Base64Char((b[1] % 4) * 16 + b[2] \div 16),
          Base64Char((b[2] % 16) * 4), 61>>
    ELSE
        <<Base64Char(b[1] \div 4), Base64Char((b[1] % 4) * 16 + b[2] \div 16),
          Base64Char((b[2] % 16) * 4 + b[3] \div 64), Base64Char(b[3] % 64)>>
        \o Base64(SubSeq(b, 4, Len(b)))

\* keyId="..",algorithm="..",headers="..",signature=".."
EncodeParams(ss) ==
    KeyIdParam \o ss.key_id
    \o AlgorithmParam \o AlgorithmName(ss.algorithm)
    \o HeadersParam \o Join(ss.headers, Space)
    \o SignatureParam \o Base64(Sign(ss.signing_string, ss.algorithm))
    \o Quote

\* AsHttpSignature::signature_header: the parameters as the header value
signature_header(r, key_id, key, algorithm) ==
    LET sig == as_http_signature(r, key_id, key, algorithm)
        ss == SigningString(sig)
    IN  IF sig.status # "ok"
        THEN [status |-> sig.status, value |-> <<>>, signing_string |-> <<>>]
        ELSE [status |-> "ok",
              value |-> EncodeParams(ss),
              signing_string |-> ss.signing_string]

\* AsHttpSignature::authorization_header: the scheme token, a space, the parameters
authorization_header(r, key_id, key, algorithm) ==
    LET sig == as_http_signature(r, key_id, key, algorithm)
        ss == SigningString(sig)
    IN  IF sig.status # "ok"
        THEN [status |-> sig.status, value |-> <<>>, signing_string |-> <<>>]
        ELSE [status |-> "ok",
              value |-> SchemePrefix \o EncodeParams(ss),
              signing_string |-> ss.signing_string]

-----------------------------------------------------------------------------
(* impl WithHttpSignature for hyper::Request.                               *)

\* the outcome of an attach call: its status and the request it leaves
Attached(h, r, headers) ==
    [status |-> h.status, req |-> [r EXCEPT !.headers = headers],
     value |-> h.value, signing_string |-> h.signing_string]

\* an attach that appends to the Authorization header instead of setting it
with_authorization_header_append(r, key_id, key, algorithm) ==
    LET h == authorization_header(r, key_id, key, algorithm)
    IN  IF h.status # "ok" THEN Attached(h, r, r.headers)
        ELSE Attached(h, r, append_raw(r.headers, AuthorizationName, h.value))

\* let auth_header = self.authorization_header(..)?; then set(Authorization(..))
with_authorization_header(r, key_id, key, algorithm) ==
    LET h == authorization_header(r, key_id, key, algorithm)
    IN  IF h.status # "ok" THEN Attached(h, r, r.headers)
        ELSE Attached(h, r, set_raw(r.headers, AuthorizationName, h.value))

\* an attach that writes the header before looking at the result
with_signature_header_early(r, key_id, key, algorithm) ==
    LET h == signature_header(r, key_id, key, algorithm)
    IN  Attached(h, r, set_raw(r.headers, SignatureName, h.value))

\* an attach that puts the scheme-wrapped value in the Signature header
with_signature_header_scheme(r, key_id, key, algorithm) ==
    LET h == authorization_header(r, key_id, key, algorithm)
    IN  IF h.status # "ok" THEN Attached(h, r, r.headers)
        ELSE Attached(h, r, set_raw(r.headers, SignatureName, h.value))

\* let sig_header = self.signature_header(..)?; then set_raw("Signature", ..)
with_signature_header(r, key_id, key, algorithm) ==
    LET h == signature_header(r, key_id, key, algorithm)
    IN  IF h.status # "ok" THEN Attached(h, r, r.headers)
        ELSE Attached(h, r, set_raw(r.headers, SignatureName, h.value))

-----------------------------------------------------------------------------
(* The state machine: a caller builds a request, then signs it.            *)

\* header names a caller sets: "a", "A", "B" and "!" (all RFC 7230 tokens)
NameSet == {<<97>>, <<65>>, <<66>>, <<33>>}
\* header values: "1", "2", and the single byte 0xFF, which is not UTF-8
ValueSet == {<<49>>, <<50>>, <<255>>}
\* the requests a caller starts from: POST /foo and GET /foo?x=1
Requests ==
    {[method |-> MethodPost, path |-> PathFoo, query |-> None, headers |-> <<>>, body |-> <<>>],
     [method |-> MethodGet, path |-> PathFoo, query |-> Some(QueryX), headers |-> <<>>, body |-> <<>>]}

\* the raw lines held by the header map
RawLines(headers) ==
    UNION {{<<i, j>> : j \in DOMAIN headers[i].raw} : i \in DOMAIN headers}

\* the raw (name, value) lines now on the request, in their order of appearance:
\* setting a header drops the lines of that name, appending keeps them
WireSet(w, name, value) ==
    LET hits == {i \in DOMAIN w : HeaderNameEq(w[i].name, name)}
        line == [name |-> name, value |-> value]
    IN  IF hits = {} THEN Append(w, line)
        ELSE SubSeq(w, 1, MinOf(hits) - 1) \o <<line>>
             \o SelectSeq(SubSeq(w, MinOf(hits) + 1, Len(w)),
                          LAMBDA p : ~HeaderNameEq(p.name, name))

WireAppend(w, name, value) == Append(w, [name |-> name, value |-> value])

NoCall(r, w) ==
    [op |-> "none", status |-> "none", before |-> r, wire |-> w,
     signing_string |-> <<>>, value |-> <<>>]

Init ==
    /\ req \in Requests
    /\ wire = <<>>
    /\ last = NoCall(req, wire)
    /\ calls = 0

\* req.headers_mut().set_raw(name, value), while the request is being built
SetRaw ==
    \E name \in NameSet, value \in ValueSet :
        /\ calls = 0
        /\ Cardinality(RawLines(set_raw(req.headers, name, value))) <= MaxRaw
        /\ req' = [req EXCEPT !.headers = set_raw(@, name, value)]
        /\ wire' = WireSet(wire, name, value)
        /\ last' = NoCall(req', wire')
        /\ UNCHANGED calls

\* req.headers_mut().append_raw(name, value), while the request is being built
AppendRaw ==
    \E name \in NameSet, value \in ValueSet :
        /\ calls = 0
        /\ Cardinality(RawLines(req.headers)) < MaxRaw
        /\ req' = [req EXCEPT !.headers = append_raw(@, name, value)]
        /\ wire' = WireAppend(wire, name, value)
        /\ last' = NoCall(req', wire')
        /\ UNCHANGED calls

\* req.as_http_signature(key_id, key, algorithm), then try_into a SigningString
AsHttpSignature ==
    \E key \in Keys :
        LET sig == as_http_signature(req, KEY_ID, key, ALGORITHM)
        IN  /\ last' = [op |-> "as_http_signature", status |-> sig.status,
                        before |-> req, wire |-> wire,
                        signing_string |->
                            IF sig.status = "ok" THEN SigningString(sig).signing_string ELSE <<>>,
                        value |-> <<>>]
            /\ UNCHANGED <<req, wire, calls>>

\* req.with_authorization_header(key_id, key, algorithm)
WithAuthorizationHeader ==
    \E key \in Keys :
        LET out == with_authorization_header(req, KEY_ID, key, ALGORITHM)
        IN  /\ calls < MaxCalls
            /\ req' = out.req
            /\ wire' = IF out.status = "ok" THEN WireSet(wire, AuthorizationName, out.value)
                       ELSE wire
            /\ last' = [op |-> "with_authorization_header", status |-> out.status,
                        before |-> req, wire |-> wire,
                        signing_string |-> out.signing_string, value |-> out.value]
            /\ calls' = IF out.status = "ok" THEN calls + 1 ELSE calls

\* req.with_signature_header(key_id, key, algorithm)
WithSignatureHeader ==
    \E key \in Keys :
        LET out == with_signature_header(req, KEY_ID, key, ALGORITHM)
        IN  /\ calls < MaxCalls
            /\ req' = out.req
            /\ wire' = IF out.status = "ok" THEN WireSet(wire, SignatureName, out.value)
                       ELSE wire
            /\ last' = [op |-> "with_signature_header", status |-> out.status,
                        before |-> req, wire |-> wire,
                        signing_string |-> out.signing_string, value |-> out.value]
            /\ calls' = IF out.status = "ok" THEN calls + 1 ELSE calls

Next ==
    \/ SetRaw
    \/ AppendRaw
    \/ AsHttpSignature
    \/ WithAuthorizationHeader
    \/ WithSignatureHeader

Spec == Init /\ [][Next]_vars

-----------------------------------------------------------------------------
(* Reading a signing string and an encoded header value back.              *)

Lines(s) == Split(s, Newline)

LineName(line) == SubSeq(line, 1, IndexOf(ColonSpace, line) - 1)

LineValue(line) == SubSeq(line, IndexOf(ColonSpace, line) + Len(ColonSpace), Len(line))

LineNames(s) ==
    LET lines == Lines(s)
    IN  [i \in DOMAIN lines |-> LineName(lines[i])]

\* the text between the first occurrence of marker and the next double quote
ParamValue(v, marker) ==
    LET rest == SubSeq(v, IndexOf(marker, v) + Len(marker), Len(v))
    IN  SubSeq(rest, 1, IndexOf(Quote, rest) - 1)

Range(f) == {f[i] : i \in DOMAIN f}

Signed == last.status = "ok"

AttachOps == {"with_authorization_header", "with_signature_header"}

TargetName(op) == IF op = "with_authorization_header" THEN AuthorizationName ELSE SignatureName

\* "(request-target): " + lower(method) + " " + path, and "?" + query when present
ExpectedFirstLine(r) ==
    REQUEST_TARGET \o ColonSpace \o ToLowercase(r.method) \o Space \o r.path
    \o (IF r.query = None THEN <<>> ELSE QuestionMark \o r.query[1])

-----------------------------------------------------------------------------
(* Properties of the adapter.                                              *)

\* C1: the first line of every signing string is "(request-target): " followed by
\* the lower-cased method, a space and the path, then "?" and the query exactly
\* when the URI has one; no header line precedes it.
C1_FirstLineIsRequestTarget ==
    Signed => Lines(last.signing_string)[1] = ExpectedFirstLine(last.before)

\* C2: the lines of every signing string are in strictly ascending byte order of
\* the lower-cased names they emit, whatever the case and the insertion order of
\* the names on the request.
C2_LinesAscendByLowercaseName ==
    Signed =>
        LET names == LineNames(last.signing_string)
        IN  \A i, j \in DOMAIN names : i < j => StrLess(names[i], names[j])

\* the values of the raw lines whose name lower-cases to n, in order of appearance
WireValues(w, n) ==
    LET sel == SelectSeq(w, LAMBDA p : ToLowercase(p.name) = n)
    IN  [i \in DOMAIN sel |-> sel[i].value]

\* C3: the signing string has exactly one line per distinct lower-cased name among
\* the raw (name, value) lines of the request, and the line's value is all the raw
\* values seen under any case variant of that name, in order of appearance, joined
\* with ", ".
C3_HeadersFoldedCaseInsensitively ==
    Signed =>
        LET lines == Lines(last.signing_string)
        IN  \A p \in Range(last.wire) :
                LET n == ToLowercase(p.name)
                    at == {i \in DOMAIN lines : LineName(lines[i]) = n}
                IN  /\ Cardinality(at) = 1
                    /\ \A i \in at :
                          LineValue(lines[i]) = Join(WireValues(last.wire, n), CommaSpace)

C3_Witness ==
    /\ Signed
    /\ \E i, j \in DOMAIN last.wire :
          /\ i < j
          /\ last.wire[i].name # last.wire[j].name
          /\ ToLowercase(last.wire[i].name) = ToLowercase(last.wire[j].name)
          /\ last.wire[i].value # last.wire[j].value

\* C4: when with_authorization_header or with_signature_header returns an error,
\* the request is exactly what it was before the call.
C4_FailedAttachLeavesRequest ==
    (last.op \in AttachOps /\ last.status = "err") => req = last.before

C4_Witness ==
    /\ last.op = "with_signature_header"
    /\ last.status = "err"
    /\ last.before.headers # <<>>

\* the entries of a header map other than those of the given name
OtherHeaders(headers, name) == SelectSeq(headers, LAMBDA e : ~HeaderNameEq(e.name, name))

\* C5: a successful attach leaves exactly one header of the target name, holding
\* the newly encoded value alone, and leaves every other header, the method, the
\* URI and the body as they were; this holds after any sequence of attach calls.
C5_AttachReplacesOnlyTarget ==
    (last.op \in AttachOps /\ Signed) =>
        LET t == TargetName(last.op)
            at == {i \in DOMAIN req.headers : HeaderNameEq(req.headers[i].name, t)}
        IN  /\ Cardinality(at) = 1
            /\ \A i \in at : req.headers[i].raw = <<last.value>>
            /\ OtherHeaders(req.headers, t) = OtherHeaders(last.before.headers, t)
            /\ req.method = last.before.method
            /\ req.path = last.before.path
            /\ req.query = last.before.query
            /\ req.body = last.before.body

C5_Witness ==
    /\ last.op = "with_authorization_header"
    /\ Signed
    /\ \E i \in DOMAIN last.before.headers :
          /\ HeaderNameEq(last.before.headers[i].name, AuthorizationName)
          /\ last.before.headers[i].raw # <<last.value>>
    /\ OtherHeaders(last.before.headers, AuthorizationName) # <<>>

\* C6: the headers parameter of the encoded signature lists exactly the names of
\* the signing-string lines (the pseudo-header and every header name of the
\* request), lower-case, separated by single spaces, in the order of the lines.
C6_HeadersParamListsSigningLines ==
    (last.op \in AttachOps /\ Signed) =>
        LET listed == Split(ParamValue(last.value, HeadersParam), Space)
        IN  /\ listed = LineNames(last.signing_string)
            /\ \A i \in DOMAIN listed : listed[i] = ToLowercase(listed[i])
            /\ Range(listed) = {REQUEST_TARGET}
                   \cup {ToLowercase(e.name) : e \in Range(last.before.headers)}
            /\ Len(listed) = 1 + Len(last.before.headers)

C6_Witness ==
    /\ last.op \in AttachOps
    /\ Signed
    /\ Len(last.before.headers) >= 2
    /\ \E e \in Range(last.before.headers) : e.name # ToLowercase(e.name)

\* the value a header map holds under a name
HeaderValue(headers, name) == value_string(headers[FindHeader(headers, name)])

\* C7: for the same request, key id, key and algorithm the value attached by
\* with_authorization_header is the scheme token "Signature", a space, and the
\* value attached by with_signature_header: the parameters are the same.
C7_SchemeWrapsSameParams ==
    (last.op \in AttachOps /\ Signed) =>
        LET a == with_authorization_header(last.before, KEY_ID, "private.der", ALGORITHM)
            b == with_signature_header(last.before, KEY_ID, "private.der", ALGORITHM)
            av == HeaderValue(a.req.headers, AuthorizationName)
            bv == HeaderValue(b.req.headers, SignatureName)
        IN  /\ a.status = "ok" /\ b.status = "ok"
            /\ av = SchemePrefix \o bv
            /\ HeaderValue(req.headers, TargetName(last.op))
                   = (IF last.op = "with_authorization_header" THEN av ELSE bv)
            /\ \A m \in {KeyIdParam, AlgorithmParam, HeadersParam, SignatureParam} :
                  ParamValue(av, m) = ParamValue(bv, m)

C7_Witness ==
    /\ last.op = "with_signature_header"
    /\ Signed
    /\ last.before.headers # <<>>

\* C8: when the request carries a header value that is not valid UTF-8,
\* signing returns an error; it neither panics nor succeeds.
C8_NonUtf8IsAnError ==
    (last.op # "none" /\ \E p \in Range(last.wire) : ~IsUtf8(p.value)) => last.status = "err"

\* C9: the signing string has one line for the pseudo-header and one per distinct
\* header name, joined by single newlines with none trailing; a request without
\* headers yields the pseudo-header line alone, and POST /foo yields
\* "(request-target): post /foo".
C9_OneLinePerName ==
    Signed =>
        LET lines == Lines(last.signing_string)
        IN  /\ Len(lines) = 1 + Cardinality({ToLowercase(p.name) : p \in Range(last.wire)})
            /\ \A i \in DOMAIN lines : lines[i] # <<>>
            /\ REQUEST_TARGET \in Range(LineNames(last.signing_string))
            /\ last.wire = <<>> => last.signing_string = ExpectedFirstLine(last.before)
            /\ (last.wire = <<>> /\ last.before.method = MethodPost /\ last.before.query = None)
                   => last.signing_string = PostFooLine

C9_Witness ==
    /\ Signed
    /\ last.op = "as_http_signature"
    /\ last.wire = <<>>
    /\ last.signing_string = PostFooLine

\* C10: after a successful attach, every header name listed in the headers
\* parameter of the attached signature is on the request with the value that was
\* put in the signed string.
C10_SignatureRecomputable ==
    (last.op \in AttachOps /\ Signed) =>
        LET lines == Lines(last.signing_string)
        IN  \A i \in DOMAIN lines :
                LET n == LineName(lines[i])
                IN  IF n = REQUEST_TARGET THEN LineValue(lines[i]) = RequestTarget(req)
                    ELSE \E e \in Range(req.headers) :
                            /\ ToLowercase(e.name) = n
                            /\ value_string(e) = LineValue(lines[i])

====
